---- MODULE Spec2Model ----
(***************************************************************************)
(* Model of scripts/pipeline_transformers/interactive.py: the interactive  *)
(* shell (code.interact) that exposes process(question, top_n, n_docs)     *)
(* and usage(), the query operation and its rendering of the backend's     *)
(* predictions.                                                            *)
(*                                                                         *)
(* Strings whose characters matter (span text, context text, rendered      *)
(* output) are sequences of one-character strings.  Scores are integer     *)
(* valued floats.                                                          *)
(***************************************************************************)
EXTENDS Integers, Sequences, FiniteSets, TLC

(***************************************************************************)
(* Bounds of the model.                                                    *)
(***************************************************************************)
MaxCand == 2            \* most candidates the backend finds for one query
MaxTopN == 2            \* largest top_n the operator passes explicitly

(***************************************************************************)
(* Startup configuration (argparse, lines 35-101).                         *)
(***************************************************************************)
Retrievers == {"tfidf", "serini-bm25"}

NDocsDefault_Swapped(r) == IF r = "tfidf" THEN 30 ELSE 5

NDocsDefault(r) == IF r = "tfidf" THEN 5 ELSE 30

TopNDefault == 3

\* an argument the operator leaves out of the call, and one passed
Omitted == << >>

Passed(v) == << v >>

\* the value a parameter takes: the argument, or the default of the def
ArgOrDefault(arg, default) == IF arg = Omitted THEN default ELSE arg[1]

(***************************************************************************)
(* Python helpers used by process().                                       *)
(***************************************************************************)
Min(a, b) == IF a < b THEN a ELSE b

Max(a, b) == IF a > b THEN a ELSE b

\* index normalisation of a slice bound: negative counts from the end,
\* then clamped to 0..n
SliceIndex(i, n) == IF i < 0 THEN Max(i + n, 0) ELSE Min(i, n)

\* text[lo:hi]
PySlice(text, lo, hi) ==
    LET n == Len(text)
        l == SliceIndex(lo, n)
        h == SliceIndex(hi, n)
    IN  IF l >= h THEN << >> ELSE SubSeq(text, l + 1, h)

\* text[:hi]
PySliceTo(text, hi) == PySlice(text, 0, hi)

\* text[lo:]
PySliceFrom(text, lo) == PySlice(text, lo, Len(text))

EscBold == "ESC[1m"
EscGreen == "ESC[32m"
EscReset == "ESC[0m"
Escapes == {EscBold, EscGreen, EscReset}

\* termcolor.colored(s, 'green', attrs=['bold'])
colored(s) == <<EscBold, EscGreen>> \o s \o <<EscReset>>

RECURSIVE Pow10(_)
Pow10(k) == IF k = 0 THEN 1 ELSE 10 * Pow10(k - 1)

RECURSIVE NumDigits(_)
NumDigits(n) == IF n < 10 THEN 1 ELSE 1 + NumDigits(n \div 10)

\* '%.5g' % x for an integer-valued x >= 0: x rounded to 5 significant
\* digits, ties to even; the value the printed string denotes
Fmt5g(x) ==
    LET d == NumDigits(x)
    IN  IF d <= 5 THEN x
        ELSE LET unit == Pow10(d - 5)
                 q == x \div unit
                 r == x % unit
                 up == (2 * r > unit) \/ (2 * r = unit /\ q % 2 = 1)
             IN  (IF up THEN q + 1 ELSE q) * unit

(***************************************************************************)
(* The backend's answers (pipeline.process, lines 111-113).  A prediction  *)
(* is the dict the backend returns per answer span; NoContext stands for a *)
(* dict without the 'context' key.                                         *)
(***************************************************************************)
NoContext == << >>

Context(text, start, end) == << [text |-> text, start |-> start, end |-> end] >>

ContextText == <<"a", "b", "c">>

\* span text with the context the backend attached to it: matching
\* offsets, offsets of another substring, no context, start >= end
SpanShapes ==
    { [span |-> <<"a">>, doc_id |-> "d1",
       context |-> Context(ContextText, 0, 1)],
      [span |-> <<"b", "c">>, doc_id |-> "d2",
       context |-> Context(ContextText, 1, 3)],
      [span |-> <<"a">>, doc_id |-> "d2",
       context |-> Context(ContextText, 1, 3)],
      [span |-> <<"a">>, doc_id |-> "d1", context |-> NoContext],
      [span |-> <<"c">>, doc_id |-> "d1",
       context |-> Context(ContextText, 2, 1)] }

\* 0.98, and two scores that differ only beyond the fifth digit
SpanScores == {98000, 123455, 123456}

DocScore(d) == IF d = "d1" THEN 12300 ELSE 999995

Predictions ==
    { [span |-> sh.span, doc_id |-> sh.doc_id, span_score |-> sc,
       doc_score |-> DocScore(sh.doc_id), context |-> sh.context] :
          sh \in SpanShapes, sc \in SpanScores }

RECURSIVE SeqsUpTo(_, _)
SeqsUpTo(S, n) ==
    IF n = 0 THEN { << >> }
    ELSE LET shorter == SeqsUpTo(S, n - 1)
         IN  shorter \cup { Append(s, x) : s \in { t \in shorter : Len(t) = n - 1 }, x \in S }

\* the backend ranks its candidates by span_score, best first
Ranked(c) == \A i \in 1..(Len(c) - 1) : c[i].span_score >= c[i + 1].span_score

Candidates == { c \in SeqsUpTo(Predictions, MaxCand) : Ranked(c) }

\* the backend returns the top_n best of the candidates it found
TopOf(c, top_n) == SubSeq(c, 1, Min(top_n, Len(c)))

BackendFailures == {"RetrievalError", "ExtractionError", "InvalidInput"}

Questions == {"", "q"}

\* failures the backend can answer a call with
FailuresFor(question) ==
    IF question = "" THEN BackendFailures ELSE BackendFailures \ {"InvalidInput"}

(***************************************************************************)
(* Rendering (lines 116-136).  What is written to the terminal is a        *)
(* sequence of items, in the order written.                                *)
(***************************************************************************)
Item(kind, body) == [kind |-> kind, body |-> body]

\* logger.info('Processed 1 query in %.4f (s)' % (time.time() - t0))
LogLine == Item("log", <<"Processed 1 query in">>)

\* variant: enumerate(predictions) counting from 0
TableRows_FromZero(preds) ==
    [ i \in 1..Len(preds) |->
        [rank |-> i - 1,
         answer |-> preds[i].span,
         doc |-> preds[i].doc_id,
         ascore |-> Fmt5g(preds[i].span_score),
         dscore |-> Fmt5g(preds[i].doc_score)] ]

\* variant: every prediction is added to the table twice
TableRows_Twice(preds) ==
    [ i \in 1..(2 * Len(preds)) |->
        [rank |-> i,
         answer |-> preds[(i + 1) \div 2].span,
         doc |-> preds[(i + 1) \div 2].doc_id,
         ascore |-> Fmt5g(preds[(i + 1) \div 2].span_score),
         dscore |-> Fmt5g(preds[(i + 1) \div 2].doc_score)] ]

\* table.add_row(...) for i, p in enumerate(predictions, 1)
TableRows(preds) ==
    [ i \in 1..Len(preds) |->
        [rank |-> i,
         answer |-> preds[i].span,
         doc |-> preds[i].doc_id,
         ascore |-> Fmt5g(preds[i].span_score),
         dscore |-> Fmt5g(preds[i].doc_score)] ]

\* variant: the suffix taken from end + 1
ContextView_OffByOne(p) ==
    LET text == p.context[1].text
        start == p.context[1].start
        end == p.context[1].end
    IN  PySliceTo(text, start) \o colored(PySlice(text, start, end)) \o PySliceFrom(text, end + 1)

\* text[:start] + colored(text[start: end], 'green', attrs=['bold']) + text[end:]
ContextView(p) ==
    LET text == p.context[1].text
        start == p.context[1].start
        end == p.context[1].end
    IN  PySliceTo(text, start) \o colored(PySlice(text, start, end)) \o PySliceFrom(text, end)

\* for p in predictions: ... ; p['context'] raises KeyError when the key
\* is missing, and what was printed before stays printed
RECURSIVE ContextLoop(_, _, _)
ContextLoop(preds, i, printed) ==
    IF i > Len(preds) THEN [out |-> printed, raised |-> "none"]
    ELSE IF preds[i].context = NoContext THEN [out |-> printed, raised |-> "KeyError"]
    ELSE ContextLoop(preds, i + 1,
                     printed \o << Item("doc", <<preds[i].doc_id>>),
                                   Item("view", ContextView(preds[i])) >>)

\* the body of process() after the backend has returned
RenderAll(preds) ==
    LET loop == ContextLoop(preds, 1, << >>)
    IN  [out |-> << Item("print", <<"Top Predictions:">>),
                    Item("table", TableRows(preds)),
                    Item("print", <<"Contexts:">>) >> \o loop.out,
         raised |-> loop.raised]

\* InteractiveInterpreter.showtraceback()
Traceback(exc) == Item("traceback", <<exc>>)

(***************************************************************************)
(* State.                                                                  *)
(***************************************************************************)
VARIABLES
    retriever,       \* args.retriever
    n_docs_default,  \* set with the pipeline, lines 88 / 101
    shell,           \* where the read-eval-print loop is
    request,         \* the call the operator typed: question, top_n, n_docs
    call,            \* the arguments of pipeline.process for this request
    backendCalls,    \* invocations of pipeline.process for this request
    backendExc,      \* what pipeline.process raised, "none" if nothing
    found,           \* candidates the backend found for this request
    predictions,     \* what pipeline.process returned
    raised,          \* what process() raised to the shell, "none" if nothing
    out,             \* what the current command has written so far
    outcome,         \* how the current command ended
    afterError,      \* the command before this one ended in an error
    exitCause        \* what ended the shell

vars == << retriever, n_docs_default, shell, request, call, backendCalls, backendExc,
           found, predictions, raised, out, outcome, afterError, exitCause >>

config == << retriever, n_docs_default >>

NoRequest == [question |-> "", top_n |-> Omitted, n_docs |-> Omitted]

NoCall == [question |-> "", top_n |-> 0, n_docs |-> 0, return_context |-> FALSE]

TopNArgs == {Omitted} \cup { Passed(n) : n \in 1..MaxTopN }

NDocsArgs == {Omitted, Passed(5), Passed(30)}

Init ==
    /\ retriever \in Retrievers
    /\ n_docs_default = NDocsDefault(retriever)
    /\ shell = "Idle"
    /\ request = NoRequest
    /\ call = NoCall
    /\ backendCalls = 0
    /\ backendExc = "none"
    /\ found = 0
    /\ predictions = << >>
    /\ raised = "none"
    /\ out = << Item("banner", << >>) >>
    /\ outcome = "none"
    /\ afterError = FALSE
    /\ exitCause = "none"

(***************************************************************************)
(* The read-eval-print loop (code.interact, line 149) and the commands in  *)
(* its namespace.                                                          *)
(***************************************************************************)

\* top of the loop: the frame of the command before is gone, and
\* raw_input(prompt) writes the prompt and waits
Prompt ==
    /\ shell = "Idle"
    /\ shell' = "AwaitingInput"
    /\ request' = NoRequest
    /\ call' = NoCall
    /\ backendCalls' = 0
    /\ backendExc' = "none"
    /\ found' = 0
    /\ predictions' = << >>
    /\ raised' = "none"
    /\ out' = << Item("prompt", <<">>> ">>) >>
    /\ UNCHANGED << config, outcome, afterError, exitCause >>

\* the operator enters process(question[, top_n][, n_docs]); the defaults
\* of the def are bound and pipeline.process is called (lines 109-113)
Submit(question, top_n, n_docs) ==
    /\ shell = "AwaitingInput"
    /\ shell' = "Processing"
    /\ request' = [question |-> question, top_n |-> top_n, n_docs |-> n_docs]
    /\ call' = [question |-> question,
                top_n |-> ArgOrDefault(top_n, TopNDefault),
                n_docs |-> ArgOrDefault(n_docs, n_docs_default),
                return_context |-> TRUE]
    /\ backendCalls' = 1
    /\ backendExc' = "none"
    /\ found' = 0
    /\ predictions' = << >>
    /\ raised' = "none"
    /\ out' = << >>
    /\ afterError' = (outcome = "error")
    /\ outcome' = "running"
    /\ UNCHANGED << config, exitCause >>

\* pipeline.process returns; the duration is logged (line 114)
BackendReturn(c) ==
    /\ shell = "Processing"
    /\ shell' = "Rendering"
    /\ found' = Len(c)
    /\ predictions' = TopOf(c, call.top_n)
    /\ out' = Append(out, LogLine)
    /\ UNCHANGED << config, request, call, backendCalls, backendExc, raised,
                    outcome, afterError, exitCause >>

\* variant: the exception is not caught by the loop and ends the shell
BackendRaise_Fatal(exc) ==
    /\ shell = "Processing"
    /\ exc \in FailuresFor(call.question)
    /\ shell' = "Exited"
    /\ backendExc' = exc
    /\ raised' = exc
    /\ out' = Append(out, Traceback(exc))
    /\ outcome' = "error"
    /\ UNCHANGED << config, request, call, backendCalls, found, predictions,
                    afterError, exitCause >>

\* variant: process() catches the failure and calls the backend again
BackendRaise_Retry(exc) ==
    /\ shell = "Processing"
    /\ exc \in FailuresFor(call.question)
    /\ backendCalls < 2
    /\ backendCalls' = backendCalls + 1
    /\ UNCHANGED << config, shell, request, call, backendExc, found, predictions,
                    raised, out, outcome, afterError, exitCause >>

\* variant: process() swallows the failure and renders an empty result
BackendRaise_Swallowed(exc) ==
    /\ shell = "Processing"
    /\ exc \in FailuresFor(call.question)
    /\ shell' = "Rendering"
    /\ backendExc' = exc
    /\ UNCHANGED << config, request, call, backendCalls, found, predictions,
                    raised, out, outcome, afterError, exitCause >>

\* pipeline.process raises: nothing in process() catches it, runcode()
\* shows the traceback and the loop goes on
BackendRaise(exc) ==
    /\ shell = "Processing"
    /\ exc \in FailuresFor(call.question)
    /\ shell' = "Idle"
    /\ backendExc' = exc
    /\ raised' = exc
    /\ out' = Append(out, Traceback(exc))
    /\ outcome' = "error"
    /\ UNCHANGED << config, request, call, backendCalls, found, predictions,
                    afterError, exitCause >>

\* lines 116-136, then back in the loop; an exception of the rendering is
\* shown by runcode() as well
Render ==
    /\ shell = "Rendering"
    /\ shell' = "Idle"
    /\ LET r == RenderAll(predictions)
       IN  /\ raised' = r.raised
           /\ out' = IF r.raised = "none" THEN out \o r.out
                     ELSE Append(out \o r.out, Traceback(r.raised))
           /\ outcome' = IF r.raised = "none" THEN "ok" ELSE "error"
    /\ UNCHANGED << config, request, call, backendCalls, backendExc, found,
                    predictions, afterError, exitCause >>

\* the operator enters usage() (lines 145-146)
Usage ==
    /\ shell = "AwaitingInput"
    /\ shell' = "Idle"
    /\ out' = << Item("banner", << >>) >>
    /\ afterError' = (outcome = "error")
    /\ outcome' = "usage"
    /\ UNCHANGED << config, request, call, backendCalls, backendExc, found,
                    predictions, raised, exitCause >>

\* Ctrl-C at the prompt: interact() writes KeyboardInterrupt and goes on
Interrupt ==
    /\ shell = "AwaitingInput"
    /\ shell' = "Idle"
    /\ out' = << Item("print", <<"KeyboardInterrupt">>) >>
    /\ afterError' = (outcome = "error")
    /\ outcome' = "interrupt"
    /\ UNCHANGED << config, request, call, backendCalls, backendExc, found,
                    predictions, raised, exitCause >>

ExitCauses == {"EOF", "exit()"}

\* end of input at the prompt leaves the loop; exit() raises SystemExit,
\* which runcode() lets through
Exit(cause) ==
    /\ shell = "AwaitingInput"
    /\ cause \in ExitCauses
    /\ shell' = "Exited"
    /\ exitCause' = cause
    /\ out' = IF cause = "EOF" THEN << Item("print", <<"now exiting InteractiveConsole...">>) >>
              ELSE << >>
    /\ afterError' = (outcome = "error")
    /\ outcome' = "exit"
    /\ UNCHANGED << config, request, call, backendCalls, backendExc, found,
                    predictions, raised >>

Next ==
    \/ Prompt
    \/ \E q \in Questions, t \in TopNArgs, n \in NDocsArgs : Submit(q, t, n)
    \/ \E c \in Candidates : BackendReturn(c)
    \/ \E e \in BackendFailures : BackendRaise(e)
    \/ Render
    \/ Usage
    \/ Interrupt
    \/ \E x \in ExitCauses : Exit(x)

Spec == Init /\ [][Next]_vars

(***************************************************************************)
(* What the claims observe.                                                *)
(***************************************************************************)
\* the bodies of the items of one kind, in the order written
OutOf(o, kind) ==
    LET sel == SelectSeq(o, LAMBDA it : it.kind = kind)
    IN  [ i \in 1..Len(sel) |-> sel[i].body ]

TablePrinted == Len(OutOf(out, "table")) = 1

Table == OutOf(out, "table")[1]

Views == OutOf(out, "view")

DocLines == OutOf(out, "doc")

Tracebacks == OutOf(out, "traceback")

Logged == Len(OutOf(out, "log")) > 0

\* a query is running or has just ended, and its frame is still in view
QueryInView ==
    \/ shell \in {"Processing", "Rendering"}
    \/ shell = "Idle" /\ outcome \in {"ok", "error"}

\* the query has ended, one way or the other
QueryEnded == shell = "Idle" /\ outcome \in {"ok", "error"}

ValidOffsets(c) == 0 <= c.start /\ c.start < c.end /\ c.end <= Len(c.text)

\* the rendered text with the escape sequences removed
StripStyle(s) == SelectSeq(s, LAMBDA ch : ch \notin Escapes)

\* what stands between the colour escape and the reset in a context view
Highlighted(v) ==
    LET i == CHOOSE k \in 1..Len(v) : v[k] = EscGreen
        j == CHOOSE k \in 1..Len(v) : v[k] = EscReset
    IN  SubSeq(v, i + 1, j - 1)

IndexOfKind(kind) == { i \in 1..Len(out) : out[i].kind = kind }

(***************************************************************************)
(* Claims.                                                                 *)
(***************************************************************************)

\* C1: an exception raised while a query is processed or rendered is shown
\* to the operator as a traceback and the shell goes back to the top of
\* its loop, from where it can only prompt again; it does not exit.  At
\* the prompt after an error every query is accepted, and a query that
\* follows an error and succeeds is rendered in full.  The shell exits
\* only from the prompt, by end of input or exit().
C1_ErrorKeepsShellInteractive ==
    [][ /\ (outcome = "running" /\ raised' # "none") =>
              /\ shell' = "Idle"
              /\ OutOf(out', "traceback") = << <<raised'>> >>
              /\ outcome' = "error"
        /\ (shell = "Idle" /\ outcome = "error") => shell' = "AwaitingInput"
        /\ (shell = "AwaitingInput" /\ outcome = "error") =>
              \A q \in Questions, t \in TopNArgs, n \in NDocsArgs : ENABLED Submit(q, t, n)
        /\ (afterError /\ outcome = "running" /\ outcome' = "ok") =>
              /\ Len(OutOf(out', "table")) = 1
              /\ Len(OutOf(out', "table")[1]) = Len(predictions')
              /\ Len(OutOf(out', "view")) = Len(predictions')
              /\ OutOf(out', "traceback") = << >>
        /\ shell' = "Exited" =>
              /\ shell \in {"AwaitingInput", "Exited"}
              /\ exitCause' \in ExitCauses
              /\ outcome' = "exit"
      ]_vars

\* C1 witness: a query that followed a failed one has been answered
C1_Witness ==
    /\ afterError
    /\ shell = "Idle"
    /\ outcome = "ok"
    /\ Len(predictions) > 0
    /\ TablePrinted

\* C2 (as claimed): once the backend call of a query is over, whether it
\* returned or raised, the duration line has been logged
C2_DurationLoggedEitherWay ==
    (backendCalls = 1 /\ shell # "Processing") => Logged

\* C3 (as claimed): a prediction without context is skipped: the query
\* ends without an exception, with the table and with a context view for
\* every prediction that has a context
C3_MissingContextSkipped ==
    (QueryEnded /\ backendExc = "none") =>
        /\ raised = "none"
        /\ TablePrinted
        /\ Len(Views) = Cardinality({ i \in 1..Len(predictions) :
                                        predictions[i].context # NoContext })

C5_OneCallFailurePropagated ==
    /\ backendCalls <= 1
    /\ QueryInView =>
          /\ backendCalls = 1
          /\ call.return_context = TRUE
          /\ call.question = request.question
          /\ call.top_n = ArgOrDefault(request.top_n, TopNDefault)
          /\ call.n_docs = ArgOrDefault(request.n_docs, n_docs_default)
    /\ (QueryInView /\ backendExc # "none") =>
          /\ shell = "Idle"
          /\ raised = backendExc
          /\ Tracebacks = << <<backendExc>> >>
          /\ ~TablePrinted
          /\ Views = << >>
          /\ predictions = << >>

\* C5 witness: the backend has failed with RetrievalError
C5_Witness ==
    /\ QueryEnded
    /\ backendExc = "RetrievalError"
    /\ backendCalls = 1

\* C6: the summary table has at most top_n rows, and as many rows as the
\* backend found candidates when top_n is not smaller than that
C6_RowsAtMostTopN ==
    (QueryInView /\ TablePrinted) =>
        /\ Len(Table) <= call.top_n
        /\ (call.top_n >= found => Len(Table) = found)
        /\ (call.top_n < found => Len(Table) = call.top_n)

\* C6 witness: top_n larger than the number of candidates found
C6_Witness ==
    /\ QueryInView
    /\ TablePrinted
    /\ found > 0
    /\ call.top_n > found
    /\ Len(Table) = found

\* C7: the ranks in the table are 1..len with no gap, in increasing order,
\* and the answer score does not increase from one row to the next
C7_RanksAndScoresOrdered ==
    (QueryInView /\ TablePrinted) =>
        /\ Len(Table) = Len(predictions)
        /\ \A i \in 1..Len(Table) : Table[i].rank = i
        /\ \A i \in 1..(Len(Table) - 1) :
              /\ Table[i].rank < Table[i + 1].rank
              /\ Table[i].ascore >= Table[i + 1].ascore
              /\ predictions[i].span_score >= predictions[i + 1].span_score

\* C7 witness: two rows whose scores differ and print the same
C7_Witness ==
    /\ QueryInView
    /\ TablePrinted
    /\ Len(Table) = 2
    /\ predictions[1].span_score > predictions[2].span_score
    /\ Table[1].ascore = Table[2].ascore

\* C8 (as claimed): no context view highlights a string other than the
\* answer shown in the table row of the same rank
C8_HighlightIsTheAnswer ==
    (QueryInView /\ TablePrinted) =>
        \A i \in 1..Len(Views) : Highlighted(Views[i]) = Table[i].answer

\* C9 (as claimed): prompting for and handling queries, the shell moves
\* only along Idle -> AwaitingInput -> Processing -> Rendering -> Idle,
\* and to Exited by the operator's exit
C9_OnlyAlongTheCycle ==
    [][ (shell' # shell /\ outcome' \notin {"usage", "interrupt"}) =>
          << shell, shell' >> \in { << "Idle", "AwaitingInput" >>,
                                    << "AwaitingInput", "Processing" >>,
                                    << "Processing", "Rendering" >>,
                                    << "Rendering", "Idle" >>,
                                    << "AwaitingInput", "Exited" >> }
      ]_vars

\* C9 (amended): besides the cycle Idle -> AwaitingInput -> Processing ->
\* Rendering -> Idle, the shell goes from Processing straight to Idle when
\* the backend call raises, and from AwaitingInput straight to Idle on
\* usage() and on an interrupt at the prompt.  Rendering is entered only
\* from Processing, after the one backend call of the query returned
\* without an exception; a query starts only at the prompt, so there is
\* one query in flight at most; Exited is entered only from the prompt by
\* the operator's exit and is never left
C9_ShellTransitions ==
    [][ /\ shell' # shell =>
              << shell, shell' >> \in { << "Idle", "AwaitingInput" >>,
                                        << "AwaitingInput", "Processing" >>,
                                        << "Processing", "Rendering" >>,
                                        << "Rendering", "Idle" >>,
                                        << "Processing", "Idle" >>,
                                        << "AwaitingInput", "Idle" >>,
                                        << "AwaitingInput", "Exited" >> }
        /\ (shell = "Processing" /\ shell' = "Idle") =>
              (backendExc' # "none" /\ raised' = backendExc' /\ outcome' = "error")
        /\ (shell = "AwaitingInput" /\ shell' = "Idle") =>
              (backendCalls' = 0 /\ outcome' \in {"usage", "interrupt"})
        /\ (shell # "Rendering" /\ shell' = "Rendering") =>
              (shell = "Processing" /\ backendExc' = "none" /\ backendCalls' = 1
               /\ Len(OutOf(out', "log")) = 1)
        /\ (outcome' = "running" /\ outcome # "running") => shell = "AwaitingInput"
        /\ (shell \in {"Processing", "Rendering"}) => (request' = request /\ call' = call)
        /\ shell' = "Exited" =>
              (shell \in {"AwaitingInput", "Exited"} /\ exitCause' \in ExitCauses
               /\ raised' = "none")
        /\ shell = "Exited" => shell' = "Exited"
      ]_vars

\* C9 witness: the shell is back at the top of its loop after a backend
\* failure, without having rendered
C9_Witness ==
    /\ shell = "Idle"
    /\ outcome = "error"
    /\ backendExc # "none"
    /\ ~TablePrinted

\* C10: for offsets with 0 <= start < end <= len(text) the context view is
\* text[0:start], then the emphasized text[start:end], then text[end:],
\* and without the styling it is the context text; the views follow the
\* complete table, one per prediction, in rank order
C10_ContextViewKeepsText ==
    QueryInView =>
        /\ Len(Views) <= Len(predictions)
        /\ Len(DocLines) = Len(Views)
        /\ Views # << >> => (TablePrinted /\ Len(Table) = Len(predictions))
        /\ \A i \in IndexOfKind("view") : \A j \in IndexOfKind("table") : j < i
        /\ \A i \in 1..Len(Views) :
              LET c == predictions[i].context[1]
              IN  /\ DocLines[i] = << predictions[i].doc_id >>
                  /\ ValidOffsets(c) =>
                        /\ Views[i] = SubSeq(c.text, 1, c.start)
                                        \o << EscBold, EscGreen >>
                                        \o SubSeq(c.text, c.start + 1, c.end)
                                        \o << EscReset >>
                                        \o SubSeq(c.text, c.end + 1, Len(c.text))
                        /\ StripStyle(Views[i]) = c.text
        /\ (QueryEnded /\ raised = "none" /\ backendExc = "none") =>
              Len(Views) = Len(predictions)

\* C10 witness: two views of contexts with valid offsets, a prefix before
\* the one highlight and a suffix after the other
C10_Witness ==
    /\ QueryEnded
    /\ Len(Views) = 2
    /\ \A i \in 1..2 : ValidOffsets(predictions[i].context[1])
    /\ \E i \in 1..2 : predictions[i].context[1].start > 0
    /\ \E i \in 1..2 : predictions[i].context[1].end < Len(predictions[i].context[1].text)

====
